---------------------------- MODULE Spec2Model ----------------------------
(***************************************************************************)
(* OpenGPT (src/opengpt.py): the conversation-to-response pipeline of the  *)
(* Discord bot, with metered credit accounting and ask-back directives.    *)
(*                                                                         *)
(* A triggering message starts one task: on_message walks the reply chain  *)
(* (get_conversation_history), generate_answer loads the user,             *)
(* generate_text assembles the conversation, checks the credits, calls     *)
(* generate_openai_response, services directives in check_for_questions,   *)
(* debits and saves the user, and send_response delivers the reply.        *)
(*                                                                         *)
(* Texts.  A text is the record [head, tail]: the characters of head       *)
(* followed by tail copies of the plain letter "x".  Every string          *)
(* operation of the code that the model needs (len, startswith, slicing,   *)
(* strip, re.sub) is defined on that representation, character by          *)
(* character on head.                                                      *)
(*                                                                         *)
(* Numbers.  Python's round() is round-half-to-even; the rates of          *)
(* model_pricing are kept as exact fractions.                              *)
(***************************************************************************)
EXTENDS Integers, Sequences, FiniteSets, TLC

(***************************************************************************)
(* Bounds of the model (not constants of the program).                     *)
(***************************************************************************)
\* longest reply chain the platform holds (messages, the trigger included)
MaxChain == 3
\* directive rounds counted exactly; the counters saturate here
MaxRounds == 2
\* characters per token of the tokenizer model
CharsPerToken == 4
\* characters of the system prompt that come from the environment
\* (user, ids, datetime, guild and channel names)
EnvLen == 150
\* a balance far above every price of the model
BigCredits == 1000
\* characters of the URL the paste service returns
UrlLen == 23
\* largest token count given to the credit calculator on its own
MaxCalcTokens == 80

(***************************************************************************)
(* Constants of the program.                                               *)
(***************************************************************************)
\* send_response: len(response) > 1850
DiscordLimit == 1850
\* generate_openai_response: len(full_response) / 250 > sent_parts
ProgressChunk == 250
\* generate_openai_response: len(full_response) < 1600
PreviewLimit == 1600
\* literal characters of the system message's f-string
SystemLiteralLen == 1335
\* characters of gpt_4_only_user_prompt
Gpt4UserPromptLen == 125
\* characters of gpt_4_only_prompt when user.model == "gpt-4"
Gpt4PromptLen == 401

Models == {"gpt-4", "gpt-3.5-turbo"}

\* model_pricing: the rates as fractions num/den
model_pricing ==
  [m \in Models |->
     IF m = "gpt-4"
     THEN [max_tokens |-> 7500,
           prompt |-> [num |-> 3, den |-> 100],
           response |-> [num |-> 6, den |-> 100]]
     ELSE [max_tokens |-> 3500,
           prompt |-> [num |-> 2, den |-> 1000],
           response |-> [num |-> 2, den |-> 1000]]]

(***************************************************************************)
(* Arithmetic.                                                             *)
(***************************************************************************)
Min(a, b) == IF a <= b THEN a ELSE b

Max(a, b) == IF a >= b THEN a ELSE b

\* Python round(n/d) for d > 0: the nearest integer, ties to the even one
\* a rounding that resolves only the exact halves and drops every other fraction
round_tiesonly(n, d) ==
  LET q == n \div d
      r == n % d
  IN  IF 2 * r = d /\ q % 2 = 1 THEN q + 1 ELSE q

round(n, d) ==
  LET q == n \div d
      r == n % d
  IN  IF 2 * r < d THEN q
      ELSE IF 2 * r > d THEN q + 1
      ELSE IF q % 2 = 0 THEN q ELSE q + 1

\* a calculator that forgets the fixed surcharge
calculate_credit_price_nosurcharge(model, prompt_tokens, response_tokens) ==
  round(prompt_tokens * model_pricing[model].prompt.num,
        model_pricing[model].prompt.den)
  + round(response_tokens * model_pricing[model].response.num,
          model_pricing[model].response.den)

calculate_credit_price(model, prompt_tokens, response_tokens) ==
  LET prompt_price ==
        round(prompt_tokens * model_pricing[model].prompt.num,
              model_pricing[model].prompt.den)
      response_price ==
        round(response_tokens * model_pricing[model].response.num,
              model_pricing[model].response.den)
  IN  prompt_price + response_price + 1

\* round(credits / rate) = round(credits * den / num)
calculate_credits_to_response_tokens(model, credits) ==
  round(credits * model_pricing[model].response.den,
        model_pricing[model].response.num)

(***************************************************************************)
(* Texts.                                                                  *)
(***************************************************************************)
Whitespace == {" ", "\n", "\t"}

Text(head, tail) == [head |-> head, tail |-> tail]

EmptyText == Text(<<>>, 0)

\* len(s)
TextLen(t) == Len(t.head) + t.tail

\* s.startswith(p), p a sequence of characters none of which is "x"
StartsWith(t, p) ==
  /\ Len(p) <= Len(t.head)
  /\ SubSeq(t.head, 1, Len(p)) = p

\* s[n:]
DropFirst(t, n) ==
  IF n <= Len(t.head)
  THEN Text(SubSeq(t.head, n + 1, Len(t.head)), t.tail)
  ELSE Text(<<>>, Max(0, t.tail - (n - Len(t.head))))

RECURSIVE LStrip(_)
LStrip(s) ==
  IF s # <<>> /\ Head(s) \in Whitespace THEN LStrip(Tail(s)) ELSE s

RECURSIVE RStrip(_)
RStrip(s) ==
  IF s # <<>> /\ s[Len(s)] \in Whitespace
  THEN RStrip(SubSeq(s, 1, Len(s) - 1))
  ELSE s

\* s.strip(): the letters of the tail are no whitespace
Strip(t) ==
  IF t.tail > 0
  THEN Text(LStrip(t.head), t.tail)
  ELSE Text(RStrip(LStrip(t.head)), 0)

\* tokenizer: len(enc.encode(s)) for a string of n characters
TokenCount(n) == (n + CharsPerToken - 1) \div CharsPerToken

encode(t) == TokenCount(TextLen(t))

(***************************************************************************)
(* The fixed replies of the program.                                       *)
(***************************************************************************)
InsufficientCreditChars ==
  <<
    "I", "'", "m", " ", "s", "o", "r", "r", "y", ",", " ", "b",
    "u", "t", " ", "y", "o", "u", " ", "d", "o", "n", "'", "t",
    " ", "h", "a", "v", "e", " ", "e", "n", "o", "u", "g", "h",
    " ", "c", "r", "e", "d", "i", "t", "s", " ", "t", "o", " ",
    "a", "n", "s", "w", "e", "r", " ", "t", "h", "i", "s", " ",
    "q", "u", "e", "s", "t", "i", "o", "n", "."
  >>

RateLimitChars ==
  <<
    "I", "'", "m", " ", "s", "o", "r", "r", "y", ",", " ", "b",
    "u", "t", " ", "I", "'", "m", " ", "c", "u", "r", "r", "e",
    "n", "t", "l", "y", " ", "r", "a", "t", "e", " ", "l", "i",
    "m", "i", "t", "e", "d", " ", "(", "m", "a", "y", "b", "e",
    " ", "c", "o", "n", "s", "i", "d", "e", "r", " ", "u", "s",
    "i", "n", "g", " ", "a", "n", "o", "t", "h", "e", "r", " ",
    "m", "o", "d", "e", "l", "?", ")", ".", " ", "P", "l", "e",
    "a", "s", "e", " ", "t", "r", "y", " ", "a", "g", "a", "i",
    "n", " ", "l", "a", "t", "e", "r", "."
  >>

TechnicalDifficultiesChars ==
  <<
    "I", "'", "m", " ", "s", "o", "r", "r", "y", ",", " ", "b",
    "u", "t", " ", "I", "'", "m", " ", "c", "u", "r", "r", "e",
    "n", "t", "l", "y", " ", "e", "x", "p", "e", "r", "i", "e",
    "n", "c", "i", "n", "g", " ", "t", "e", "c", "h", "n", "i",
    "c", "a", "l", " ", "d", "i", "f", "f", "i", "c", "u", "l",
    "t", "i", "e", "s", ".", " ", "P", "l", "e", "a", "s", "e",
    " ", "t", "r", "y", " ", "a", "g", "a", "i", "n", " ", "l",
    "a", "t", "e", "r", "."
  >>

DontKnowChars ==
  <<
    "I", " ", "d", "o", "n", "'", "t", " ", "k", "n", "o", "w",
    " ", "w", "h", "a", "t", " ", "t", "o", " ", "s", "a", "y",
    "."
  >>

PasteLinkChars ==
  <<
    "I", "'", "m", " ", "r", "e", "a", "d", "y", "!", " ", "B",
    "u", "t", " ", "t", "h", "e", " ", "m", "e", "s", "s", "a",
    "g", "e", " ", "i", "s", " ", "t", "o", "o", " ", "l", "o",
    "n", "g", " ", "f", "o", "r", " ", "D", "i", "s", "c", "o",
    "r", "d", ".", "\n", "I", " ", "u", "p", "l", "o", "a", "d",
    "e", "d", " ", "i", "t", " ", "h", "e", "r", "e", " ", "f",
    "o", "r", " ", "y", "o", "u", ":", " "
  >>

InsufficientCreditApology == Text(InsufficientCreditChars, 0)

RateLimitApology == Text(RateLimitChars, 0)

TechnicalDifficultiesApology == Text(TechnicalDifficultiesChars, 0)

DontKnowReply == Text(DontKnowChars, 0)

\* f"I'm ready! ... I uploaded it here for you: {url}"
PasteLinkReply == Text(PasteLinkChars, UrlLen)


\* f"User: {dc_user} ({user})"
UserInfoText == Text(<<"U", "s", "e", "r", ":", " ">>, EnvLen)

\* f"We are currently in {guild_response}"
GuildInfoText ==
  Text(<<"W", "e", " ", "a", "r", "e", " ", "c", "u", "r", "r", "e", "n", "t",
         "l", "y", " ", "i", "n", " ", "\n", "G", "u", "i", "l", "d", ":", " ">>,
       EnvLen)

UiPrefix == <<"(", "u", "i", ")">>

GiPrefix == <<"(", "g", "i", ")">>

GifOpen == <<"@", "g", "i", "f", "(">>

(***************************************************************************)
(* re.sub(r"@gif\((.+?)\)", lambda m: m.group(1), s) on the characters of  *)
(* a head: a match is "@gif(", then the shortest run of one or more        *)
(* characters other than a line break, then ")".                           *)
(***************************************************************************)
\* the position of the ")" closing a match that starts at position 1, or 0
GifClose(s) ==
  IF Len(s) >= 7 /\ SubSeq(s, 1, 5) = GifOpen
  THEN LET closes == {j \in 7..Len(s) : s[j] = ")"}
       IN  IF closes = {} THEN 0
           ELSE LET j == CHOOSE k \in closes : \A l \in closes : k <= l
                IN  IF \E i \in 6..(j - 1) : s[i] = "\n" THEN 0 ELSE j
  ELSE 0

\* the leftmost match is replaced by its group, then the rest is scanned
RECURSIVE GifSub(_)
GifSub(s) ==
  LET starts == {i \in 1..Len(s) : GifClose(SubSeq(s, i, Len(s))) > 0}
  IN  IF starts = {} THEN s
      ELSE LET i == CHOOSE k \in starts : \A l \in starts : k <= l
               j == i - 1 + GifClose(SubSeq(s, i, Len(s)))
           IN  SubSeq(s, 1, i - 1) \o SubSeq(s, i + 5, j - 1)
               \o GifSub(SubSeq(s, j + 1, Len(s)))

ReplaceGif(t) == Text(GifSub(t.head), t.tail)

(***************************************************************************)
(* The platform's messages and the persisted user.                         *)
(***************************************************************************)
Authors == {"bot", "user"}

\* the content of the i-th message of a chain: one letter, then i letters x
MessageContent(i) == Text(<<"m">>, i)

\* a reply chain, oldest first: message i + 1 replies to message i
Chain(authors, mention) ==
  [i \in 1..Len(authors) |->
     [author |-> authors[i],
      content |-> MessageContent(i),
      reference |-> i - 1,
      mention |-> (i = Len(authors)) /\ mention]]

AuthorSeqs == UNION {[1..n -> Authors] : n \in 1..MaxChain}

Chains == {Chain(a, m) : a \in AuthorSeqs, m \in BOOLEAN}

\* UserData(user_id).load()
UserData_load(record) == record

\* user.save()
UserData_save(record, user) == user

NoUser == [model |-> "gpt-3.5-turbo", credits |-> 0]

(***************************************************************************)
(* generate_text: the conversation and the credit check.                   *)
(***************************************************************************)
\* the sections of the system message, in the order of the f-string
SystemSections(user) ==
  <<"persona", "user", "gpt_4_only_user_prompt", "datetime", "guidance",
    "environment">>
  \o (IF user.model = "gpt-4" THEN <<"gpt_4_only_prompt">> ELSE <<>>)

\* the sections whose text tells the model to send (ui) or (gi)
DirectiveSections == {"gpt_4_only_user_prompt", "gpt_4_only_prompt"}

SystemPromptLen(user) ==
  SystemLiteralLen + EnvLen + Gpt4UserPromptLen
  + (IF user.model = "gpt-4" THEN Gpt4PromptLen ELSE 0)

SystemMessage(user) ==
  [role |-> "system", content |-> Text(<<>>, SystemPromptLen(user))]

\* conversation = [system]; if context: conversation.extend(context)
Assemble(user, context) == <<SystemMessage(user)>> \o context

RECURSIVE SumLen(_)
SumLen(conv) ==
  IF conv = <<>> THEN 0 ELSE TextLen(Head(conv).content) + SumLen(Tail(conv))

\* len("\n".join(message['content'] for message in conversation))
ConversationContentLen(conv) ==
  IF conv = <<>> THEN 0 ELSE SumLen(conv) + (Len(conv) - 1)

\* len(enc.encode(conversation_content))
PromptTokens(conv) == TokenCount(ConversationContentLen(conv))

\* a check that forgets the surcharge of the prompt price
InsufficientCredit_nosurcharge(user, prompt_tokens) ==
  calculate_credit_price_nosurcharge(user.model, prompt_tokens, 0) > user.credits

\* prompt_credits > user.credits
InsufficientCredit(user, prompt_tokens) ==
  calculate_credit_price(user.model, prompt_tokens, 0) > user.credits


(***************************************************************************)
(* generate_openai_response: the stream and the progress surface.          *)
(***************************************************************************)
\* the answers the provider may stream
ResponseHeads ==
  { <<>>,
    <<"h">>,
    <<"h", "i">>,
    <<"(", "u", "i", ")", " ", "4", "2">>,
    <<"(", "u", "i", ")", "4", "2">>,
    <<"(", "u", "i", ")", " ", " ", "7", " ">>,
    <<"(", "g", "i", ")">>,
    <<" ", "(", "g", "i", ")">>,
    <<"(", "U", "I", ")", " ", "4">>,
    <<"@", "g", "i", "f", "(", "c", ")">> }

\* a tail that brings a one-letter head to the limit of send_response
LongTail == DiscordLimit - 1

\* the heads that also come with a long tail
LongHeads == {<<"h">>, <<"h", "i">>, <<"(", "g", "i", ")">>}

Responses ==
  {Text(h, 0) : h \in ResponseHeads} \cup {Text(h, LongTail) : h \in LongHeads}

\* the lengths of the fragments the provider streams
FragmentSizes == {100, 600}

\* the content of an edit of the progress surface: sent_parts and the
\* characters of the preview (full_response, or its first 1600 characters)
ProgressContent(sent_parts, received) ==
  [status |-> "generating",
   parts |-> sent_parts,
   shown |-> IF received < PreviewLimit THEN received ELSE PreviewLimit,
   truncated |-> ~(received < PreviewLimit)]

(***************************************************************************)
(* The loop over the chunks: received characters so far, of total, in      *)
(* fragments of frag characters.  acc is [sent_parts, edits, surface,      *)
(* raised]; an edit that fails raises out of the loop.                     *)
(***************************************************************************)
RECURSIVE StreamLoop(_, _, _, _, _)
StreamLoop(received, total, frag, editOk, acc) ==
  IF received >= total \/ acc.raised THEN acc
  ELSE LET now == Min(received + frag, total)
           crossed == now > ProgressChunk * acc.sent_parts
           next ==
             IF ~crossed THEN acc
             ELSE IF ~editOk
             THEN [acc EXCEPT !.sent_parts = @ + 1, !.raised = TRUE]
             ELSE [acc EXCEPT !.sent_parts = @ + 1,
                              !.edits = @ + 1,
                              !.surface = ProgressContent(acc.sent_parts + 1, now)]
       IN  StreamLoop(now, total, frag, editOk, next)

\* full_response = ""; sent_parts = 1; for chunk in response: ...
Stream(text, frag, editOk, surface) ==
  StreamLoop(0, TextLen(text), frag, editOk,
             [sent_parts |-> 1, edits |-> 0, surface |-> surface, raised |-> FALSE])

\* handlers that keep the text received when the edit of the progress
\* surface fails
ReturnedResponse_keep(outcome, text) ==
  IF outcome = "rate_limited" THEN RateLimitApology
  ELSE IF outcome \in {"ok", "edit_failed"} THEN text
  ELSE TechnicalDifficultiesApology

\* the value generate_openai_response returns: the text of the stream, or
\* the apology of the except clause that caught the exception
ReturnedResponse(outcome, text) ==
  IF outcome = "rate_limited" THEN RateLimitApology
  ELSE IF outcome = "ok" THEN text
  ELSE TechnicalDifficultiesApology

\* max_tokens=(min(max_tokens - len(prompt_tokens), max_response_tokens))
RequestMaxTokens(max_tokens, prompt_tokens, max_response_tokens) ==
  Min(max_tokens - prompt_tokens, max_response_tokens)

(***************************************************************************)
(* check_for_questions: the classification of a completed response.        *)
(***************************************************************************)
\* a Resolver that puts the fetched context right after the system message
AppendContext_front(conversation, appended) ==
  <<Head(conversation), appended>> \o Tail(conversation)

\* conversation.append({"role": "user", "content": ...})
AppendContext(conversation, appended) == Append(conversation, appended)

\* [kind, target]: the branch taken and, for (ui), asked_user_id
Directive(full_response) ==
  IF StartsWith(full_response, UiPrefix)
  THEN [kind |-> "ui", target |-> Strip(DropFirst(full_response, 5))]
  ELSE IF StartsWith(full_response, GiPrefix)
  THEN [kind |-> "gi", target |-> EmptyText]
  ELSE [kind |-> "none", target |-> EmptyText]

Unclassified == [kind |-> "unclassified", target |-> EmptyText]

(***************************************************************************)
(* Settlement and delivery.                                                *)
(***************************************************************************)
\* a settlement that prices the prompt alone
sky_credits_prompt_only(model, prompt_tokens, full_response) ==
  calculate_credit_price(model, prompt_tokens, 0)

\* calculate_credit_price(user.model, len(prompt_tokens), len(response_tokens))
sky_credits(model, prompt_tokens, full_response) ==
  calculate_credit_price(model, prompt_tokens, encode(full_response))

\* a delivery that already pastes a text of exactly 1850 characters
send_response_atlimit(response, pasteOk) ==
  IF TextLen(response) >= DiscordLimit
  THEN [reply |-> IF pasteOk THEN PasteLinkReply ELSE TechnicalDifficultiesApology,
        pasted |-> TRUE]
  ELSE [reply |-> response, pasted |-> FALSE]

\* send_response: the message sent, and whether new_bulk_text was called
send_response(response, pasteOk) ==
  IF TextLen(response) > DiscordLimit
  THEN [reply |-> IF pasteOk THEN PasteLinkReply ELSE TechnicalDifficultiesApology,
        pasted |-> TRUE]
  ELSE [reply |-> response, pasted |-> FALSE]

\* generate_answer: the text handed to send_response
ResponseText(text) ==
  ReplaceGif(IF TextLen(text) = 0 THEN DontKnowReply ELSE text)


(***************************************************************************)
(* get_conversation_history.                                               *)
(***************************************************************************)
\* role "system" for the bot's own messages, "user" otherwise
Entry(message) ==
  [role |-> IF message.author = "bot" THEN "system" ELSE "user",
   content |-> message.content]

\* a walk that appends instead of inserting at the front
HistoryInsert_append(conversation, entry) == Append(conversation, entry)

\* conversation.insert(0, entry)
HistoryInsert(conversation, entry) == <<entry>> \o conversation

(***************************************************************************)
(* State.                                                                  *)
(*   chain     the platform's reply chain that ends in the trigger         *)
(*   arrivals  notifications of the trigger not yet delivered              *)
(*   db        the persisted record of the triggering user                 *)
(*   task      per task: the locals of its coroutines, and what it did     *)
(*   thinking  per task: the content of its "thinking" message             *)
(*   replies   per task: the messages send_response sent                   *)
(*   calc      the credit calculator applied on its own: its inputs, and   *)
(*             its result once computed                                    *)
(***************************************************************************)
VARIABLES chain, arrivals, db, task, thinking, replies, calc

vars == <<chain, arrivals, db, task, thinking, replies, calc>>

Tasks == {1, 2}

NoSurface == [status |-> "none", parts |-> 0, shown |-> 0, truncated |-> FALSE]

Surface(status) == [NoSurface EXCEPT !.status = status]

IdleTask ==
  [pc |-> "idle",
   cur |-> 0,
   context |-> <<>>,
   user |-> NoUser,
   loaded |-> NoUser,
   loads |-> 0,
   conversation |-> <<>>,
   prompt_tokens |-> 0,
   max_response_tokens |-> 0,
   max_tokens |-> 0,
   requested |-> 0,
   full_response |-> EmptyText,
   outcome |-> "none",
   calls |-> 0,
   edits |-> 0,
   rounds |-> 0,
   classified |-> EmptyText,
   route |-> Unclassified,
   result |-> [text |-> EmptyText, credits |-> 0],
   saves |-> 0,
   paste |-> "none"]

CalcInput(model, p, r) ==
  [model |-> model, prompt_tokens |-> p, response_tokens |-> r,
   price |-> 0, computed |-> FALSE]

NoCalc == CalcInput("gpt-4", 0, 0)

\* the balances around the price of the prompt, and a large one
CreditChoices(model, c) ==
  LET user == [model |-> model, credits |-> 0]
      p == PromptTokens(Assemble(user, [i \in 1..Len(c) |-> Entry(c[i])]))
      price == calculate_credit_price(model, p, 0)
  IN  {0, price - 1, price, price + 1, BigCredits}

InitWith(n) ==
  /\ chain \in Chains
  /\ arrivals = n
  /\ \E model \in Models :
       \E credits \in CreditChoices(model, chain) :
         db = [model |-> model, credits |-> credits]
  /\ task = [t \in Tasks |-> IdleTask]
  /\ thinking = [t \in Tasks |-> NoSurface]
  /\ replies = [t \in Tasks |-> <<>>]
  /\ calc = NoCalc

Init == InitWith(1)

Set(t, fields) == task' = [task EXCEPT ![t] = fields]

(***************************************************************************)
(* on_message, up to the walk of the reply chain.                          *)
(***************************************************************************)
OnMessage(t) ==
  /\ arrivals > 0
  /\ task[t].pc = "idle"
  /\ \A u \in Tasks : u < t => task[u].pc # "idle"
  /\ arrivals' = arrivals - 1
  /\ LET message == chain[Len(chain)]
         direct_mentioned == message.mention
         referenced_message_by_bot ==
           /\ message.reference # 0
           /\ chain[message.reference].author = "bot"
     IN  IF message.author = "bot" \/ (~direct_mentioned /\ ~referenced_message_by_bot)
         THEN /\ Set(t, [task[t] EXCEPT !.pc = "ignored"])
              /\ UNCHANGED thinking
         ELSE /\ Set(t, [task[t] EXCEPT !.pc = "history", !.cur = Len(chain)])
              /\ thinking' = [thinking EXCEPT ![t] = Surface("thinking")]
  /\ UNCHANGED <<chain, db, replies, calc>>

\* one level of get_conversation_history; the last one returns to on_message,
\* which edits the thinking message and creates the task of generate_answer
GetConversationHistory(t) ==
  /\ task[t].pc = "history"
  /\ LET message == chain[task[t].cur]
         conversation == HistoryInsert(task[t].context, Entry(message))
     IN  IF message.reference # 0
         THEN /\ Set(t, [task[t] EXCEPT !.context = conversation,
                                        !.cur = message.reference])
              /\ UNCHANGED thinking
         ELSE /\ Set(t, [task[t] EXCEPT !.context = conversation,
                                        !.pc = "spawned"])
              /\ thinking' = [thinking EXCEPT ![t] = Surface("context_found")]
  /\ UNCHANGED <<chain, arrivals, db, replies, calc>>

\* generate_answer: user = await get_user_data(message.author.id)
GetUserData(t) ==
  /\ task[t].pc = "spawned"
  /\ LET user == UserData_load(db)
     IN  Set(t, [task[t] EXCEPT !.user = user, !.loaded = user,
                                !.loads = @ + 1,
                                !.pc = "generate_text"])
  /\ UNCHANGED <<chain, arrivals, db, thinking, replies, calc>>

\* generate_text, to the first call of generate_openai_response or to the
\* early return
GenerateText(t) ==
  /\ task[t].pc = "generate_text"
  /\ LET user == task[t].user
         conversation == Assemble(user, task[t].context)
         prompt_tokens == PromptTokens(conversation)
         prompt_credits == calculate_credit_price(user.model, prompt_tokens, 0)
         available_credits == user.credits - prompt_credits
     IN  IF InsufficientCredit(user, prompt_tokens)
         THEN Set(t, [task[t] EXCEPT
                        !.conversation = conversation,
                        !.prompt_tokens = prompt_tokens,
                        !.result = [text |-> InsufficientCreditApology, credits |-> 0],
                        !.pc = "answer"])
         ELSE Set(t, [task[t] EXCEPT
                        !.conversation = conversation,
                        !.prompt_tokens = prompt_tokens,
                        !.max_response_tokens =
                           calculate_credits_to_response_tokens(user.model,
                                                                available_credits),
                        !.max_tokens = model_pricing[user.model].max_tokens,
                        !.pc = "generate"])
  /\ UNCHANGED <<chain, arrivals, db, thinking, replies, calc>>


(***************************************************************************)
(* generate_openai_response: one call of the provider.  The provider       *)
(* streams text in fragments of frag characters, within the max_tokens of  *)
(* the request, and raises error (or nothing) after them; an edit of the   *)
(* progress surface may fail.  Every exception becomes an apology.         *)
(***************************************************************************)
GenerateOpenAIResponse(t) ==
  /\ task[t].pc = "generate"
  /\ \E text \in Responses, frag \in FragmentSizes, editOk \in BOOLEAN,
        error \in {"none", "rate_limited", "failure"} :
       LET limit == RequestMaxTokens(task[t].max_tokens, task[t].prompt_tokens,
                                     task[t].max_response_tokens)
           st == Stream(text, frag, editOk, thinking[t])
           outcome == IF st.raised THEN "edit_failed"
                      ELSE IF error # "none" THEN error
                      ELSE "ok"
       IN  /\ encode(text) <= Max(limit, 0)
           /\ Set(t, [task[t] EXCEPT
                        !.requested = limit,
                        !.full_response = ReturnedResponse(outcome, text),
                        !.outcome = outcome,
                        !.calls = Min(@ + 1, MaxRounds + 1),
                        !.edits = st.edits,
                        !.pc = "check"])
           /\ thinking' = [thinking EXCEPT ![t] = st.surface]
  /\ UNCHANGED <<chain, arrivals, db, replies, calc>>

(***************************************************************************)
(* check_for_questions: one level of the recursion.  A directive appends   *)
(* the fetched context, prints, edits the thinking message and calls the   *)
(* provider again; that edit is not guarded, and its failure ends the      *)
(* task.  rounds counts the directives serviced, up to MaxRounds; the      *)
(* conversation keeps the first MaxRounds appended messages.               *)
(***************************************************************************)
CheckForQuestions(t) ==
  /\ task[t].pc = "check"
  /\ LET full_response == task[t].full_response
         d == Directive(full_response)
         appended ==
           IF d.kind = "ui"
           THEN [role |-> "user", content |-> UserInfoText]
           ELSE [role |-> "user", content |-> GuildInfoText]
         conversation ==
           IF task[t].rounds < MaxRounds
           THEN AppendContext(task[t].conversation, appended)
           ELSE task[t].conversation
     IN  IF d.kind = "none"
         THEN /\ Set(t, [task[t] EXCEPT !.classified = full_response,
                                        !.route = d,
                                        !.pc = "settle"])
              /\ UNCHANGED thinking
         ELSE \E editOk \in BOOLEAN :
                IF editOk
                THEN /\ Set(t, [task[t] EXCEPT
                                  !.classified = full_response,
                                  !.route = d,
                                  !.conversation = conversation,
                                  !.rounds = Min(@ + 1, MaxRounds),
                                  !.pc = "generate"])
                     /\ thinking' =
                          [thinking EXCEPT ![t] =
                             Surface(IF d.kind = "ui" THEN "asking_user"
                                     ELSE "asking_guild")]
                ELSE /\ Set(t, [task[t] EXCEPT
                                  !.classified = full_response,
                                  !.route = d,
                                  !.conversation = conversation,
                                  !.pc = "crashed"])
                     /\ UNCHANGED thinking
  /\ UNCHANGED <<chain, arrivals, db, replies, calc>>

\* a settlement that debits the stored balance of the moment, not the one the
\* task loaded
Settle_atomic(t) ==
  /\ task[t].pc = "settle"
  /\ LET charge == sky_credits(task[t].user.model, task[t].prompt_tokens,
                               task[t].full_response)
         user == [UserData_load(db) EXCEPT !.credits = @ - charge]
     IN  /\ Set(t, [task[t] EXCEPT
                      !.user = user,
                      !.saves = @ + 1,
                      !.result = [text |-> task[t].full_response,
                                  credits |-> charge],
                      !.pc = "answer"])
         /\ db' = UserData_save(db, user)
  /\ UNCHANGED <<chain, arrivals, thinking, replies, calc>>

\* a settlement that debits the loaded object and returns without saving it
Settle_nosave(t) ==
  /\ task[t].pc = "settle"
  /\ LET charge == sky_credits(task[t].user.model, task[t].prompt_tokens,
                               task[t].full_response)
         user == [task[t].user EXCEPT !.credits = @ - charge]
     IN  Set(t, [task[t] EXCEPT
                   !.user = user,
                   !.result = [text |-> task[t].full_response,
                               credits |-> charge],
                   !.pc = "answer"])
  /\ UNCHANGED <<chain, arrivals, db, thinking, replies, calc>>

\* a settlement that counts the tokens of the conversation as it is now,
\* with the context messages the Resolver appended
Settle_requote(t) ==
  /\ task[t].pc = "settle"
  /\ LET charge == sky_credits(task[t].user.model,
                               PromptTokens(task[t].conversation),
                               task[t].full_response)
         user == [task[t].user EXCEPT !.credits = @ - charge]
     IN  /\ Set(t, [task[t] EXCEPT
                      !.user = user,
                      !.saves = @ + 1,
                      !.result = [text |-> task[t].full_response,
                                  credits |-> charge],
                      !.pc = "answer"])
         /\ db' = UserData_save(db, user)
  /\ UNCHANGED <<chain, arrivals, thinking, replies, calc>>

\* generate_text, after check_for_questions has returned
Settle(t) ==
  /\ task[t].pc = "settle"
  /\ LET charge == sky_credits(task[t].user.model, task[t].prompt_tokens,
                               task[t].full_response)
         user == [task[t].user EXCEPT !.credits = @ - charge]
     IN  /\ Set(t, [task[t] EXCEPT
                      !.user = user,
                      !.saves = @ + 1,
                      !.result = [text |-> task[t].full_response,
                                  credits |-> charge],
                      !.pc = "answer"])
         /\ db' = UserData_save(db, user)
  /\ UNCHANGED <<chain, arrivals, thinking, replies, calc>>

\* a delivery that saves the user once more after sending
Deliver_resave(t) ==
  /\ task[t].pc = "answer"
  /\ \E pasteOk \in BOOLEAN :
       LET sent == send_response(ResponseText(task[t].result.text), pasteOk)
       IN  /\ replies' = [replies EXCEPT ![t] = Append(@, sent.reply)]
           /\ Set(t, [task[t] EXCEPT
                        !.paste = IF ~sent.pasted THEN "none"
                                  ELSE IF pasteOk THEN "ok" ELSE "failed",
                        !.saves = @ + 1,
                        !.pc = "done"])
  /\ db' = UserData_save(db, task[t].user)
  /\ thinking' = [thinking EXCEPT ![t] = Surface("deleted")]
  /\ UNCHANGED <<chain, arrivals, calc>>

\* generate_answer, after generate_text has returned: send_response and
\* delete_thinking_message
Deliver(t) ==
  /\ task[t].pc = "answer"
  /\ \E pasteOk \in BOOLEAN :
       LET sent == send_response(ResponseText(task[t].result.text), pasteOk)
       IN  /\ replies' = [replies EXCEPT ![t] = Append(@, sent.reply)]
           /\ Set(t, [task[t] EXCEPT
                        !.paste = IF ~sent.pasted THEN "none"
                                  ELSE IF pasteOk THEN "ok" ELSE "failed",
                        !.pc = "done"])
  /\ thinking' = [thinking EXCEPT ![t] = Surface("deleted")]
  /\ UNCHANGED <<chain, arrivals, db, calc>>

Next ==
  \E t \in Tasks :
    \/ OnMessage(t)
    \/ GetConversationHistory(t)
    \/ GetUserData(t)
    \/ GenerateText(t)
    \/ GenerateOpenAIResponse(t)
    \/ CheckForQuestions(t)
    \/ Settle(t)
    \/ Deliver(t)

Spec == Init /\ [][Next]_vars

\* the event loop runs every task that can take a step
FairSpec == Spec /\ WF_vars(Next)

(***************************************************************************)
(* Two messages of one user: on_message creates a task for each, and the   *)
(* event loop interleaves the tasks at their awaits.                       *)
(***************************************************************************)
\* one message that mentions the bot, and a balance one credit above the
\* price of its prompt
RaceInit ==
  /\ InitWith(2)
  /\ chain = Chain(<<"user">>, TRUE)
  /\ db.model = "gpt-4"
  /\ db.credits # BigCredits
  /\ \A c \in CreditChoices("gpt-4", chain) \ {BigCredits} : c <= db.credits

RaceSpec == RaceInit /\ [][Next]_vars

(***************************************************************************)
(* The credit calculator on its own inputs.                                *)
(***************************************************************************)
Calculate ==
  /\ ~calc.computed
  /\ calc' = [calc EXCEPT
                !.price = calculate_credit_price(calc.model, calc.prompt_tokens,
                                                 calc.response_tokens),
                !.computed = TRUE]
  /\ UNCHANGED <<chain, arrivals, db, task, thinking, replies>>

PriceInit ==
  /\ chain = Chain(<<"user">>, TRUE)
  /\ arrivals = 0
  /\ db = NoUser
  /\ task = [t \in Tasks |-> IdleTask]
  /\ thinking = [t \in Tasks |-> NoSurface]
  /\ replies = [t \in Tasks |-> <<>>]
  /\ \E model \in Models, p \in 0..MaxCalcTokens, r \in 0..MaxCalcTokens :
       calc = CalcInput(model, p, r)

PriceNext == Calculate

PriceSpec == PriceInit /\ [][PriceNext]_vars


(***************************************************************************)
(* Properties.                                                             *)
(***************************************************************************)
\* the task has passed the credit check of generate_text
Checked(t) ==
  task[t].pc \in {"generate", "check", "settle", "answer", "done", "crashed"}

\* generate_text has returned
Returned(t) == task[t].pc \in {"answer", "done"}

\* the token count of the conversation as generate_text assembles it
AssembledPromptTokens(t) ==
  PromptTokens(Assemble(task[t].loaded, task[t].context))

\* C1: when the price of the prompt alone exceeds the loaded balance,
\* generate_text returns the insufficient-credit apology and a charge of 0
\* without calling the provider, changing user.credits or saving the user;
\* a balance of 0 always ends so and stays 0.
C1_InsufficientCreditNoSpend ==
  \A t \in Tasks :
    LET k == task[t]
        short == calculate_credit_price(k.loaded.model, AssembledPromptTokens(t), 0)
                   > k.loaded.credits
    IN  /\ (Checked(t) /\ short) =>
             /\ Returned(t)
             /\ k.result = [text |-> InsufficientCreditApology, credits |-> 0]
             /\ k.calls = 0
             /\ k.saves = 0
             /\ k.user.credits = k.loaded.credits
             /\ db.credits = k.loaded.credits
             /\ (k.pc = "done" => replies[t] = <<InsufficientCreditApology>>)
        /\ (Checked(t) /\ k.loaded.credits = 0) => (short /\ db.credits = 0)

C1_Witness ==
  \E t \in Tasks :
    /\ task[t].pc = "done"
    /\ task[t].loaded.credits = 0
    /\ task[t].result.text = InsufficientCreditApology
    /\ replies[t] = <<InsufficientCreditApology>>

\* C2: when the provider raised RateLimited, generate_text returns the
\* rate-limit apology with a charge of 0 and the persisted balance is the
\* loaded one.
C2_RateLimitNoCharge ==
  \A t \in Tasks :
    (Returned(t) /\ task[t].outcome = "rate_limited") =>
      /\ task[t].result.text = RateLimitApology
      /\ task[t].result.credits = 0
      /\ db.credits = task[t].loaded.credits

\* C3: when the provider call failed otherwise, generate_text returns the
\* technical-difficulties apology and the balance after the request is the
\* balance before it.
C3_ProviderFailureNoDebit ==
  \A t \in Tasks :
    (Returned(t) /\ task[t].outcome \in {"failure", "edit_failed"}) =>
      /\ task[t].result.text = TechnicalDifficultiesApology
      /\ db.credits = task[t].loaded.credits

\* C4: a request that passed the credit check and whose generation
\* completed is charged price(model, promptTokenCount, responseTokenCount),
\* with the token count of the final text; the saved balance is the loaded
\* one minus that charge, and generate_text returns (finalText, charge).
C4_SettlementDebitsPrice ==
  \A t \in Tasks :
    LET k == task[t]
        charge == calculate_credit_price(k.loaded.model, AssembledPromptTokens(t),
                                         TokenCount(TextLen(k.full_response)))
    IN  (Returned(t) /\ k.outcome = "ok") =>
          /\ k.saves = 1
          /\ k.result = [text |-> k.full_response, credits |-> charge]
          /\ k.user.credits = k.loaded.credits - charge
          /\ db.credits = k.loaded.credits - charge

C4_Witness ==
  \E t \in Tasks :
    /\ task[t].pc = "done"
    /\ task[t].outcome = "ok"
    /\ task[t].rounds = 1
    /\ TextLen(task[t].result.text) > DiscordLimit
    /\ task[t].result.credits
         > calculate_credit_price(task[t].loaded.model, task[t].prompt_tokens, 0)
    /\ db.credits = task[t].loaded.credits - task[t].result.credits

\* C5: the balance persisted by Settlement is never negative.
C5_BalanceNonNegative ==
  \A t \in Tasks : task[t].saves >= 1 => db.credits >= 0

\* C6: the directive loop ends: every call of the provider is eventually
\* followed by the return of generate_text (or by the failure of the task).
C6_LoopTerminates ==
  \A t \in Tasks :
    (task[t].pc = "generate") ~> (task[t].pc \in {"answer", "done", "crashed"})

\* C7: a response that begins with "(ui) " is routed to user info with the
\* rest of the text (stripped) as the target, one that begins with "(gi)" to
\* guild info, and every other response ends the loop unchanged.
C7_PrefixExact ==
  \A t \in Tasks :
    LET k == task[t]
        r == k.classified
    IN  (k.route # Unclassified /\ k.pc # "crashed") =>
          IF StartsWith(r, UiPrefix \o <<" ">>)
          THEN k.route = [kind |-> "ui", target |-> Strip(DropFirst(r, 5))]
          ELSE IF StartsWith(r, GiPrefix)
          THEN k.route.kind = "gi"
          ELSE /\ k.route.kind = "none"
               /\ k.pc \in {"settle", "answer", "done"}
               /\ k.full_response = r

\* C8: the walk of an acyclic reply chain M1 <- ... <- Mn returns
\* [M1, ..., Mn], one entry per message, "system" for the bot's messages
\* and "user" for the others.
C8_HistoryChronological ==
  \A t \in Tasks :
    task[t].pc \notin {"idle", "ignored", "history"} =>
      task[t].context =
        [i \in 1..Len(chain) |->
           [role |-> IF chain[i].author = "bot" THEN "system" ELSE "user",
            content |-> chain[i].content]]

C8_Witness ==
  \E t \in Tasks :
    /\ task[t].pc = "spawned"
    /\ Len(chain) = 3
    /\ chain[1].author = "user"
    /\ chain[2].author = "bot"
    /\ task[t].context[1].role = "user"
    /\ task[t].context[2].role = "system"
    /\ task[t].context[3].content = chain[3].content

\* C9: send_response sends exactly one reply: the paste-link message for a
\* text of more than 1850 characters, the technical-difficulties apology
\* when the upload fails, and the text itself, without a call of the paste
\* service, for a text of at most 1850 characters.
C9_DeliveryOneReply ==
  \A t \in Tasks :
    LET k == task[t]
        text == ResponseText(k.result.text)
    IN  /\ k.pc # "done" => replies[t] = <<>>
        /\ k.pc = "done" =>
             /\ Len(replies[t]) = 1
             /\ IF TextLen(text) > 1850
                THEN /\ k.paste \in {"ok", "failed"}
                     /\ k.paste = "ok" => replies[t][1] = PasteLinkReply
                     /\ k.paste = "failed" => replies[t][1] = TechnicalDifficultiesApology
                     /\ replies[t][1] # text
                ELSE /\ k.paste = "none"
                     /\ replies[t][1] = text

C9_Witness ==
  \E t \in Tasks :
    /\ task[t].pc = "done"
    /\ TextLen(task[t].result.text) = 1851
    /\ task[t].paste = "ok"
    /\ replies[t] = <<PasteLinkReply>>

\* C10: every price is at least 1, also for no response tokens.
C10_PriceAtLeastOne == calc.computed => calc.price >= 1

C10_Witness ==
  /\ calc.computed
  /\ calc.model = "gpt-3.5-turbo"
  /\ calc.prompt_tokens = 0
  /\ calc.response_tokens = 0
  /\ calc.price = 1

\* C11: for a fixed model the price never falls when the prompt tokens or the
\* response tokens grow: no smaller prompt count and no smaller response
\* count has a higher price than the one computed, under round-half-to-even.
C11_PriceMonotone ==
  calc.computed =>
    /\ \A p \in 0..calc.prompt_tokens :
         calculate_credit_price(calc.model, p, calc.response_tokens) <= calc.price
    /\ \A r \in 0..calc.response_tokens :
         calculate_credit_price(calc.model, calc.prompt_tokens, r) <= calc.price

\* 51 prompt tokens (1.53 -> 2) after the half 50 (1.5 -> 2), and 76 response
\* tokens (4.56 -> 5) after the half 75 (4.5 -> 4)
C11_Witness ==
  /\ calc.computed
  /\ calc.model = "gpt-4"
  /\ calc.prompt_tokens = 51
  /\ calc.response_tokens = 76
  /\ calc.price = 2 + 5 + 1
  /\ calculate_credit_price("gpt-4", 50, 76) = 2 + 5 + 1
  /\ calculate_credit_price("gpt-4", 51, 75) = 2 + 4 + 1

\* C12: two tasks of one user are not serialized: each debits the balance it
\* loaded itself, so every save stores the saver's loaded balance less its
\* own charge, whatever the other task has saved in between (and a state is
\* reached where the stored balance shows only one of two debits).
C12_SaveOverwrites ==
  [][\A t \in Tasks :
       (task[t].pc = "settle" /\ task'[t].pc = "answer") =>
         db'.credits = task[t].loaded.credits - task'[t].result.credits]_vars

\* both tasks loaded the same balance, both debited and saved, and the
\* stored balance is the loaded one less a single charge
C12_Witness ==
  /\ \A t \in Tasks : task[t].pc = "done" /\ task[t].saves = 1
                        /\ task[t].result.credits >= 1
  /\ task[1].loaded.credits = task[2].loaded.credits
  /\ \E t \in Tasks : db.credits = task[t].loaded.credits - task[t].result.credits
  /\ db.credits > task[1].loaded.credits - task[1].result.credits
                                         - task[2].result.credits

\* a step of task t that calls the provider
ProviderCall(t) == task[t].pc = "generate" /\ task'[t].pc = "check"

\* a step of task t, after its load, that debits or saves the user
DebitOrSave(t) ==
  /\ task[t].pc # "spawned"
  /\ \/ task'[t].saves # task[t].saves
     \/ task'[t].user # task[t].user
     \/ task'[t].pc # task[t].pc /\ db' # db

\* C13: the stages of a request run in order.  The provider is called only
\* on an assembled conversation (system message first) and never once the
\* user has been saved; the debit and the save happen only when the last
\* response has been classified as no directive; the reply of a request
\* that called the provider is sent only after the save, so a paste that
\* fails afterwards leaves the debit stored.
C13_StageOrder ==
  /\ [][\A t \in Tasks :
          /\ ProviderCall(t) =>
               /\ task[t].saves = 0
               /\ task[t].conversation
                    = Assemble(task[t].loaded, task[t].context)
                        \o SubSeq(task[t].conversation, Len(task[t].context) + 2,
                                  Len(task[t].conversation))
               /\ task[t].conversation[1].role = "system"
          /\ DebitOrSave(t) =>
               /\ task[t].calls >= 1
               /\ Directive(task[t].full_response).kind = "none"
               /\ task'[t].saves = task[t].saves + 1
               /\ db' = task'[t].user
          /\ replies'[t] # replies[t] =>
               (task[t].calls >= 1 => task[t].saves = 1 /\ db = task[t].user)]_vars
  /\ [](\A t \in Tasks :
          (task[t].paste = "failed" /\ task[t].calls >= 1) =>
            /\ task[t].saves = 1
            /\ db.credits = task[t].loaded.credits - task[t].result.credits)

\* a request that serviced a directive, was debited for a long answer, and
\* whose paste failed
C13_Witness ==
  \E t \in Tasks :
    /\ task[t].pc = "done"
    /\ task[t].rounds >= 1
    /\ task[t].paste = "failed"
    /\ task[t].result.credits >= 1
    /\ db.credits = task[t].loaded.credits - task[t].result.credits
    /\ replies[t] = <<TechnicalDifficultiesApology>>

\* C14 as stated: every request that ends has loaded the user once and saved
\* it exactly once.
C14_SavedExactlyOnce ==
  \A t \in Tasks :
    task[t].pc = "done" => task[t].loads = 1 /\ task[t].saves = 1

\* C14, amended: a request loads the user once into the object it debits,
\* changes the credits of that object at most once (by the charge) and saves
\* it at most once: exactly once when generate_text has returned from a
\* request that called the provider, never when the credit check refused
\* it, and never before the Resolver has returned.
C14_LoadOnceSaveAtMostOnce ==
  \A t \in Tasks :
    LET k == task[t]
    IN  /\ k.loads = (IF k.pc \in {"idle", "ignored", "history", "spawned"}
                      THEN 0 ELSE 1)
        /\ k.saves <= 1
        /\ k.user.credits \in {k.loaded.credits, k.loaded.credits - k.result.credits}
        /\ k.user.credits # k.loaded.credits => k.saves = 1
        /\ Returned(t) => (k.saves = 1 <=> k.calls >= 1)
        /\ Returned(t) /\ k.saves = 1 => db = k.user
        /\ ~Returned(t) => k.saves = 0 /\ k.user = k.loaded
        /\ k.pc \in {"generate_text", "generate", "check", "settle", "crashed"} =>
             db = k.loaded

\* a request that serviced a directive and then was debited and saved once
C14_Witness ==
  \E t \in Tasks :
    /\ task[t].pc = "done"
    /\ task[t].rounds >= 1
    /\ task[t].loads = 1
    /\ task[t].saves = 1
    /\ task[t].result.credits >= 1
    /\ task[t].user.credits = task[t].loaded.credits - task[t].result.credits
    /\ db = task[t].user

\* C15: generate_openai_response always returns: a call ends in its return
\* and never ends the task, and whenever the provider or an edit of the
\* progress surface failed, the value returned is exactly the rate-limit
\* apology (for a rate limit) or the technical-difficulties apology (for
\* anything else), with nothing of the text received.
C15_FailuresAbsorbed ==
  /\ [][\A t \in Tasks :
          task[t].pc = "generate" /\ task'[t] # task[t] =>
            /\ task'[t].pc = "check"
            /\ task'[t].outcome \in {"ok", "rate_limited", "failure", "edit_failed"}]_vars
  /\ [](\A t \in Tasks :
          /\ task[t].outcome = "rate_limited" =>
               task[t].full_response = RateLimitApology
          /\ task[t].outcome \in {"failure", "edit_failed"} =>
               task[t].full_response = TechnicalDifficultiesApology)

\* an edit of the progress surface failed in mid-stream, after more than 250
\* characters, and the call returned the apology
C15_Witness ==
  \E t \in Tasks :
    /\ task[t].pc = "check"
    /\ task[t].outcome = "edit_failed"
    /\ task[t].full_response = TechnicalDifficultiesApology
    /\ thinking[t].status # "generating"

\* C16: when a call of the provider has returned, the max_tokens it asked
\* for is min(ceiling - tokens of the conversation it submitted, budget),
\* so the tokens of that conversation plus max_tokens stay within the
\* ceiling of the model.
C16_RequestWithinCeiling ==
  \A t \in Tasks :
    task[t].pc = "check" =>
      LET k == task[t]
          ceiling == model_pricing[k.user.model].max_tokens
          submitted == PromptTokens(k.conversation)
      IN  /\ k.requested = Min(ceiling - submitted, k.max_response_tokens)
          /\ submitted + k.requested <= ceiling

\* the messages of the conversation after the system message and the history
Appended(t) ==
  SubSeq(task[t].conversation, Len(task[t].context) + 2, Len(task[t].conversation))

\* C17: whenever the provider is or has been called, the conversation is
\* the one synthesized system message, then the history of the reply chain
\* as it was collected (the bot's own messages in it have role system), then one user-role context message per directive serviced
\* (counted up to MaxRounds), each the fetched user or guild information;
\* the Resolver changes the conversation only by appending one message,
\* and no response of the provider is ever part of it.
C17_ConversationShape ==
  /\ [](\A t \in Tasks :
          task[t].pc \in {"generate", "check", "settle", "answer", "done"}
          /\ task[t].conversation # <<>> =>
            /\ task[t].conversation
                 = <<SystemMessage(task[t].loaded)>> \o task[t].context \o Appended(t)
            /\ Len(Appended(t)) = task[t].rounds
            /\ \A i \in 1..Len(Appended(t)) :
                 /\ Appended(t)[i].role = "user"
                 /\ Appended(t)[i].content \in {UserInfoText, GuildInfoText})
  /\ [][\A t \in Tasks :
          task[t].pc \in {"generate", "check"}
          /\ task'[t].conversation # task[t].conversation =>
            /\ task[t].pc = "check"
            /\ Directive(task[t].full_response).kind # "none"
            /\ Len(task'[t].conversation) = Len(task[t].conversation) + 1
            /\ SubSeq(task'[t].conversation, 1, Len(task[t].conversation))
                 = task[t].conversation]_vars

\* a call about to be made after a (ui) and then a (gi) directive, on a
\* history of several messages
C17_Witness ==
  \E t \in Tasks :
    /\ task[t].pc = "generate"
    /\ task[t].rounds = 2
    /\ Len(task[t].context) >= 2
    /\ Appended(t) = << [role |-> "user", content |-> UserInfoText],
                        [role |-> "user", content |-> GuildInfoText] >>

\* C18: when a call of the provider has streamed its text to the end, the
\* number of edits of the progress surface made in that call equals the
\* number of 250-character boundaries the length of the text has crossed,
\* whatever the size of the fragments.
C18_EditPerBoundary ==
  \A t \in Tasks :
    task[t].pc = "check" /\ task[t].outcome = "ok" =>
      task[t].edits = TextLen(task[t].full_response) \div ProgressChunk

\* C19: the system message of a conversation assembled for a user of
\* gpt-3.5-turbo holds no section that tells the model to send (ui) or (gi):
\* it is the literal text and the environment facts and nothing more.
C19_DirectivesOnlyForGpt4 ==
  \A t \in Tasks :
    task[t].conversation # <<>> /\ task[t].loaded.model # "gpt-4" =>
      /\ \A i \in 1..Len(SystemSections(task[t].loaded)) :
           SystemSections(task[t].loaded)[i] \notin DirectiveSections
      /\ TextLen(task[t].conversation[1].content) = SystemLiteralLen + EnvLen

\* C20: the charge of a settled request is the price of the tokens of the
\* conversation as first assembled and of the tokens of the text returned
\* last, however many directives were serviced: the rounds of the Resolver
\* neither debit the user nor change the prompt token count, and the whole
\* debit of the request is that one charge.
C20_ChargeIgnoresRounds ==
  /\ [](\A t \in Tasks :
          task[t].saves = 1 =>
            /\ task[t].prompt_tokens = AssembledPromptTokens(t)
            /\ task[t].result.credits
                 = calculate_credit_price(task[t].loaded.model,
                                          AssembledPromptTokens(t),
                                          encode(task[t].result.text))
            /\ task[t].loaded.credits - task[t].user.credits
                 = task[t].result.credits)
  /\ [][\A t \in Tasks :
          task[t].pc \in {"generate", "check"}
          /\ task'[t].pc \in {"generate", "check", "crashed"} =>
            /\ task'[t].user = task[t].user
            /\ task'[t].prompt_tokens = task[t].prompt_tokens
            /\ task'[t].result = task[t].result]_vars

\* a request settled after two directives: the conversation has grown past
\* the tokens it is charged for, and the charge is that of a request with no
\* directive and the same answer
C20_Witness ==
  \E t \in Tasks :
    /\ task[t].pc = "done"
    /\ task[t].rounds = 2
    /\ task[t].outcome = "ok"
    /\ PromptTokens(task[t].conversation) > task[t].prompt_tokens
    /\ task[t].result.credits
         = sky_credits(task[t].loaded.model, AssembledPromptTokens(t),
                       task[t].result.text)
    /\ task[t].result.credits
         < sky_credits(task[t].loaded.model, PromptTokens(task[t].conversation),
                       task[t].result.text)

=============================================================================
